---- MODULE Spec2Model ----
(***************************************************************************)
(* Model of the Paradox script parser and writer of always_run.py          *)
(* (ParadoxParser, ParadoxWriter, ParadoxHelper).                          *)
(*                                                                         *)
(* A text is a sequence of one-character strings.  Python values are       *)
(* records with the fields kind, text, keys, vals:                         *)
(*   None  -> kind "none"      True -> kind "true"    False -> kind "false"*)
(*   str   -> kind "str"  (text holds the characters)                      *)
(*   dict  -> kind "dict" (keys/vals in insertion order)                   *)
(*   list  -> kind "list" (vals holds the elements)                        *)
(*   int   -> kind "int"  (text holds the digits str() gives)              *)
(* The recursive descent of parse_object is an explicit stack of           *)
(* activations; one action is one pass through the body of its loop.       *)
(***************************************************************************)
EXTENDS Integers, Sequences, FiniteSets, TLC

VARIABLES
    input,     \* the text the run starts from (empty when it starts from a tree)
    text,      \* ParadoxParser.text
    pos,       \* ParadoxParser.pos
    stack,     \* activations of parse_object, innermost last
    status,    \* "idle", "written", "parsing", "returned", "raised" or "called"
    result,    \* the value parse() returned
    tree,      \* the tree handed to ParadoxWriter.write
    written,   \* the string ParadoxWriter.write returned
    origin,    \* "text": the run starts from a text; "tree": from a tree;
               \* "alloc": it is a call of the allocator; "reader": calls
               \* of the cursor and reader methods; "handler": the
               \* construction of a handler class
    parses,    \* number of parse() calls started so far
    retItems,  \* items of the parse_object activation that returned last
    retValue,  \* value that activation returned
    call,      \* the ParadoxHelper call made on a tree, with its outcome
    alloc,     \* the heuristic_alloc call: its arguments and what it returned
    token,     \* the cursor or reader method called last, where, and its token
    run        \* the construction of a BaseHandler subclass

vars == <<input, text, pos, stack, status, result, tree, written, origin, parses,
          retItems, retValue, call, alloc, token, run>>

----------------------------------------------------------------------------
(* Bounds of the model *)

\* longest text drawn from the alphabet
MaxLen == 3

\* nesting depth of the trees handed to the writer
MaxDepth == 2

\* number of items after which an iteration that does not move the cursor
\* is no longer followed (the loop of parse_object then never ends)
MaxItems == 3

\* longest List of Scalars handed to the writer
MaxList == 4

\* longest initiatives list and largest budget (in absolute value) handed to
\* the allocator
MaxInitiatives == 2

MaxBudget == 1

\* the attributes of a handler class
MaxAttrs == 3

----------------------------------------------------------------------------
(* Python values *)

NoneNode == [kind |-> "none", text |-> <<>>, keys |-> <<>>, vals |-> <<>>]

TrueNode == [kind |-> "true", text |-> <<>>, keys |-> <<>>, vals |-> <<>>]

FalseNode == [kind |-> "false", text |-> <<>>, keys |-> <<>>, vals |-> <<>>]

Str(s) == [kind |-> "str", text |-> s, keys |-> <<>>, vals |-> <<>>]

Dict(ks, vs) == [kind |-> "dict", text |-> <<>>, keys |-> ks, vals |-> vs]

List(vs) == [kind |-> "list", text |-> <<>>, keys |-> <<>>, vals |-> vs]

EmptyDict == Dict(<<>>, <<>>)

\* str(n) of an int n >= 0
RECURSIVE str_of_int(_)
str_of_int(n) ==
    LET digit == <<"0", "1", "2", "3", "4", "5", "6", "7", "8", "9">>
    IN  IF n < 10 THEN <<digit[n + 1]>>
        ELSE str_of_int(n \div 10) \o <<digit[(n % 10) + 1]>>

Num(n) == [kind |-> "int", text |-> str_of_int(n), keys |-> <<>>, vals |-> <<>>]

\* what current_char and peek_char return past the end of the text (None)
NoChar == "None"

----------------------------------------------------------------------------
(* Cursor *)

current_char(t, p) == IF p < Len(t) THEN t[p + 1] ELSE NoChar

advance(p) == p + 1

\* the carriage return is not taken for whitespace
is_whitespace_no_cr(c) == c \in {" ", "\t", "\n"}

\* the test `char in ' \t\n\r'`
is_whitespace(c) == c \in {" ", "\t", "\n", "\r"}

\* the comment runs to the end of the text
skip_comment_to_end(t, p) == IF p < Len(t) THEN Len(t) ELSE p

\* the inner loop of skip_whitespace: from a '#' up to the line feed or the end
RECURSIVE skip_comment(_, _)
skip_comment(t, p) ==
    IF current_char(t, p) # NoChar /\ current_char(t, p) # "\n"
    THEN skip_comment(t, advance(p))
    ELSE p

RECURSIVE skip_whitespace(_, _)
skip_whitespace(t, p) ==
    IF p < Len(t)
    THEN LET char == current_char(t, p)
         IN  IF is_whitespace(char) THEN skip_whitespace(t, advance(p))
             ELSE IF char = "#" THEN skip_whitespace(t, skip_comment(t, p))
             ELSE p
    ELSE p

----------------------------------------------------------------------------
(* Token readers: each returns the token and the cursor after it *)

\* the backslash is copied like any other character
RECURSIVE string_body_no_escape(_, _, _, _)
string_body_no_escape(t, p, quote_char, acc) ==
    IF current_char(t, p) = NoChar \/ current_char(t, p) = quote_char
    THEN [val |-> acc, pos |-> p]
    ELSE string_body_no_escape(t, advance(p), quote_char,
                               Append(acc, current_char(t, p)))

RECURSIVE string_body(_, _, _, _)
string_body(t, p, quote_char, acc) ==
    LET c == current_char(t, p)
    IN  IF c = NoChar \/ c = quote_char THEN [val |-> acc, pos |-> p]
        ELSE IF c = "\\"
        THEN IF current_char(t, advance(p)) # NoChar
             THEN string_body(t, advance(advance(p)), quote_char,
                              Append(acc, current_char(t, advance(p))))
             ELSE string_body(t, advance(p), quote_char, acc)
        ELSE string_body(t, advance(p), quote_char, Append(acc, c))

\* the end of parse_string: the closing quote, when there is one, is skipped
string_end(t, quote_char, body) ==
    [val |-> body.val,
     pos |-> IF current_char(t, body.pos) = quote_char
             THEN advance(body.pos) ELSE body.pos]

\* the closing quote is left in place
parse_string_keeps_quote(t, p) ==
    string_body(t, advance(p), current_char(t, p), <<>>)

parse_string(t, p) ==
    string_end(t, current_char(t, p),
               string_body(t, advance(p), current_char(t, p), <<>>))

\* the test `char in '{}=#\n\r\t '`
is_delimiter(c) == c \in {"{", "}", "=", "#", "\n", "\r", "\t", " "}

RECURSIVE identifier_body(_, _, _)
identifier_body(t, p, acc) ==
    LET char == current_char(t, p)
    IN  IF char = NoChar \/ is_delimiter(char) THEN [val |-> acc, pos |-> p]
        ELSE identifier_body(t, advance(p), Append(acc, char))

parse_identifier(t, p) == identifier_body(t, p, <<>>)

\* the operator is not folded: the token is the first identifier alone
comparison_unfolded(t, first, operator, p3) ==
    [raised |-> FALSE, val |-> first.val, pos |-> p3 - Len(operator)]

\* the comparison branch of parse_comparison_or_value, from the operator on
comparison(t, first, operator, p3) ==
    [raised |-> FALSE,
     val |-> first.val \o operator
             \o parse_identifier(t, skip_whitespace(t, p3)).val,
     pos |-> parse_identifier(t, skip_whitespace(t, p3)).pos]

\* without an operator the cursor is put back to the end of the identifier
after_first_rewinds(t, first, p1) ==
    IF current_char(t, p1) = NoChar
    THEN [raised |-> TRUE, val |-> first.val, pos |-> p1]
    ELSE IF current_char(t, p1) \in {"<", ">"}
    THEN comparison(t, first, <<current_char(t, p1)>>, advance(p1))
    ELSE [raised |-> FALSE, val |-> first.val, pos |-> first.pos]

\* parse_comparison_or_value after `self.skip_whitespace()`, the cursor at p1.
\* `char in '<>'` with char = None raises TypeError: raised is then TRUE
after_first(t, first, p1) ==
    LET char == current_char(t, p1)
    IN  IF char = NoChar
        THEN [raised |-> TRUE, val |-> first.val, pos |-> p1]
        ELSE IF char \in {"<", ">"}
        THEN IF current_char(t, advance(p1)) = "="
             THEN comparison(t, first, <<char, "=">>, advance(advance(p1)))
             ELSE comparison(t, first, <<char>>, advance(p1))
        ELSE [raised |-> FALSE, val |-> first.val, pos |-> p1]

\* parse_comparison_or_value after `first = self.parse_identifier()`
with_first(t, first) == after_first(t, first, skip_whitespace(t, first.pos))

parse_comparison_or_value(t, p) == with_first(t, parse_identifier(t, p))

\* a call of a cursor or reader method at the cursor start, and the token it
\* returned
Token(op, start, val) == [op |-> op, start |-> start, val |-> val]

NoToken == Token("none", 0, <<>>)

----------------------------------------------------------------------------
(* dict and list operations used by parse_object *)

dict_has(d, k) == \E i \in DOMAIN d.keys : d.keys[i] = k

dict_get(d, k) == d.vals[CHOOSE i \in DOMAIN d.keys : d.keys[i] = k]

\* d[k] = v: an existing key keeps its place, a new key goes last
dict_set(d, k, v) ==
    IF dict_has(d, k)
    THEN Dict(d.keys,
              [d.vals EXCEPT ![CHOOSE i \in DOMAIN d.keys : d.keys[i] = k] = v])
    ELSE Dict(Append(d.keys, k), Append(d.vals, v))

\* `if not isinstance(x, list): x = [x]`, then `x.append(v)`
list_append(x, v) ==
    IF x.kind = "list" THEN List(Append(x.vals, v)) ELSE List(<<x, v>>)

all_have_operators(items) == \A i \in DOMAIN items : items[i].has_operator

none_have_operators(items) == \A i \in DOMAIN items : ~items[i].has_operator

has_duplicates(items) ==
    \E i, j \in DOMAIN items : i < j /\ items[i].key = items[j].key

\* all key=value pairs with unique keys -> simple dict
RECURSIVE simple_dict(_, _)
simple_dict(items, res) ==
    IF items = <<>> THEN res
    ELSE simple_dict(Tail(items),
                     dict_set(res, Head(items).key, Head(items).value))

\* key=value pairs, some keys repeated -> list of dicts
RECURSIVE list_of_dicts(_, _)
list_of_dicts(items, res) ==
    IF items = <<>> THEN List(res)
    ELSE list_of_dicts(Tail(items),
             Append(res, Dict(<<Head(items).key>>, <<Head(items).value>>)))

\* all standalone keys -> dict with True values, duplicates become lists
RECURSIVE flag_dict(_, _)
flag_dict(items, res) ==
    IF items = <<>> THEN res
    ELSE LET key == Head(items).key
         IN  flag_dict(Tail(items),
                 IF dict_has(res, key)
                 THEN dict_set(res, key, list_append(dict_get(res, key), TrueNode))
                 ELSE dict_set(res, key, TrueNode))

\* a duplicate key overwrites the value stored under it
mixed_dict_overwriting(items, res) == simple_dict(items, res)

\* mixed: a dict, a duplicate key turns its value into a list
RECURSIVE mixed_dict(_, _)
mixed_dict(items, res) ==
    IF items = <<>> THEN res
    ELSE LET key == Head(items).key
             value == Head(items).value
         IN  mixed_dict(Tail(items),
                 IF dict_has(res, key)
                 THEN dict_set(res, key, list_append(dict_get(res, key), value))
                 ELSE dict_set(res, key, value))

\* repeated assignment keys are grouped under their key instead of being kept
\* as separate single-key dicts
classify_grouping(items) ==
    IF items = <<>> THEN EmptyDict
    ELSE IF all_have_operators(items) /\ ~has_duplicates(items)
    THEN simple_dict(items, EmptyDict)
    ELSE IF none_have_operators(items) THEN flag_dict(items, EmptyDict)
    ELSE mixed_dict(items, EmptyDict)

\* the structure decision at the end of parse_object
classify(items) ==
    IF items = <<>> THEN EmptyDict
    ELSE IF all_have_operators(items) /\ ~has_duplicates(items)
    THEN simple_dict(items, EmptyDict)
    ELSE IF all_have_operators(items) /\ has_duplicates(items)
    THEN list_of_dicts(items, <<>>)
    ELSE IF none_have_operators(items) THEN flag_dict(items, EmptyDict)
    ELSE mixed_dict(items, EmptyDict)

----------------------------------------------------------------------------
(* parse_value and one pass through the loop of parse_object.               *)
(* tag says how the pass ends: "value"/"assign"/"bare" with a value,        *)
(* "object" when parse_value is about to call parse_object, "raise" when    *)
(* parse_comparison_or_value raises, "break" when the loop is left.         *)

Outcome(tag, key, value, p) ==
    [tag |-> tag, key |-> key, value |-> value, pos |-> p]

\* parse_value returns the string parse_string read
string_value(s) == Outcome("value", <<>>, Str(s.val), s.pos)

\* parse_value returns what parse_comparison_or_value read, or raises with it
token_value(c) ==
    IF c.raised THEN Outcome("raise", <<>>, NoneNode, c.pos)
    ELSE Outcome("value", <<>>, Str(c.val), c.pos)

\* parse_value after its skip_whitespace, the cursor at p1
value_at(t, p1) ==
    LET char == current_char(t, p1)
    IN  IF char = NoChar THEN Outcome("value", <<>>, NoneNode, p1)
        ELSE IF char \in {"\"", "'"} THEN string_value(parse_string(t, p1))
        ELSE IF char = "{" THEN Outcome("object", <<>>, NoneNode, p1)
        ELSE token_value(parse_comparison_or_value(t, p1))

parse_value(t, p) == value_at(t, skip_whitespace(t, p))

\* the item key = value is complete, unless the value is a nested object or
\* reading it raised
with_value(k, v) ==
    Outcome(IF v.tag = "value" THEN "assign" ELSE v.tag, k.val, v.value, v.pos)

\* after '=': the second '=' of a compound operator is skipped
after_operator(t, p3) == IF current_char(t, p3) = "=" THEN advance(p3) ELSE p3

\* the pass after the key and `self.skip_whitespace()`, the cursor at p2
after_key(t, k, p2) ==
    IF current_char(t, p2) = "="
    THEN with_value(k, parse_value(t,
             skip_whitespace(t, after_operator(t, advance(p2)))))
    ELSE Outcome("bare", k.val, TrueNode, p2)

\* the pass after `key = self.parse_comparison_or_value()`.  The key is a
\* str, never None, so `if key is None: break` is never taken
with_key(t, k) ==
    IF k.raised THEN Outcome("raise", <<>>, NoneNode, k.pos)
    ELSE after_key(t, k, skip_whitespace(t, k.pos))

\* the pass after its first `self.skip_whitespace()`, the cursor at p1
after_skip(t, p1) ==
    IF current_char(t, p1) = "}"
    THEN Outcome("break", <<>>, NoneNode, advance(p1))
    ELSE IF current_char(t, p1) = NoChar
    THEN Outcome("break", <<>>, NoneNode, p1)
    ELSE with_key(t, parse_comparison_or_value(t, p1))

\* one pass through `while self.current_char():`
loop_body(t, p) ==
    IF current_char(t, p) = NoChar THEN Outcome("break", <<>>, NoneNode, p)
    ELSE after_skip(t, skip_whitespace(t, p))

Item(key, value, has_operator) ==
    [key |-> key, value |-> value, has_operator |-> has_operator]

\* an activation of parse_object: the items collected so far, where it is
\* ("enter": before its first line, "loop": at the head of its loop) and the
\* key of the caller's item that its return value completes
Frame(key) == [items |-> <<>>, pc |-> "enter", key |-> key]

Top == stack[Len(stack)]

SetTop(f) == [stack EXCEPT ![Len(stack)] = f]

----------------------------------------------------------------------------
(* str operations used by ParadoxWriter *)

\* indent_char * indent_level, with indent_char the tab dict_to_paradox passes
RECURSIVE indent_of(_)
indent_of(level) == IF level = 0 THEN <<>> ELSE <<"\t">> \o indent_of(level - 1)

\* '\n'.join(lines)
RECURSIVE join_lines(_)
join_lines(lines) ==
    IF lines = <<>> THEN <<>>
    ELSE IF Len(lines) = 1 THEN lines[1]
    ELSE lines[1] \o <<"\n">> \o join_lines(Tail(lines))

\* `sub in s`
contains(s, sub) ==
    \E i \in 1..(Len(s) - Len(sub) + 1) : SubSeq(s, i, i + Len(sub) - 1) = sub

\* index of the first occurrence of sub in s
find(s, sub) ==
    CHOOSE i \in 1..(Len(s) - Len(sub) + 1) :
        /\ SubSeq(s, i, i + Len(sub) - 1) = sub
        /\ \A j \in 1..(i - 1) : SubSeq(s, j, j + Len(sub) - 1) # sub

\* the characters str.strip() removes, among those of the texts of the model
is_space(c) == c \in {" ", "\t", "\n", "\r"}

\* s.strip()
RECURSIVE strip(_)
strip(s) ==
    IF s = <<>> THEN s
    ELSE IF is_space(s[1]) THEN strip(Tail(s))
    ELSE IF is_space(s[Len(s)]) THEN strip(SubSeq(s, 1, Len(s) - 1))
    ELSE s

comparison_ops == << <<">", "=">>, <<"<", "=">>, <<"!", "=">>, <<">">>, <<"<">>, <<"=">> >>

_is_comparison(key) == \E n \in DOMAIN comparison_ops : contains(key, comparison_ops[n])

\* the operators tried shortest first
format_comparison_short_first(key) ==
    IF _is_comparison(key)
    THEN LET n == CHOOSE m \in DOMAIN comparison_ops :
                      /\ contains(key, comparison_ops[m])
                      /\ \A l \in (m + 1)..Len(comparison_ops) :
                             ~contains(key, comparison_ops[l])
             op == comparison_ops[n]
             at == find(key, op)
         IN  strip(SubSeq(key, 1, at - 1)) \o <<" ">> \o op \o <<" ">>
             \o strip(SubSeq(key, at + Len(op), Len(key)))
    ELSE key

_format_comparison(key) ==
    IF _is_comparison(key)
    THEN LET n == CHOOSE m \in DOMAIN comparison_ops :
                      /\ contains(key, comparison_ops[m])
                      /\ \A l \in 1..(m - 1) : ~contains(key, comparison_ops[l])
             op == comparison_ops[n]
             at == find(key, op)
         IN  strip(SubSeq(key, 1, at - 1)) \o <<" ">> \o op \o <<" ">>
             \o strip(SubSeq(key, at + Len(op), Len(key)))
    ELSE key

\* a leaf that is not a boolean is written as the text it holds
write_value_leaf_text(value) ==
    IF value.kind = "true" THEN <<"y", "e", "s">>
    ELSE IF value.kind = "false" THEN <<"n", "o">>
    ELSE value.text

\* str(value) of the kinds that are not bool, str, int: None gives "None"
_write_value(value) ==
    IF value.kind = "true" THEN <<"y", "e", "s">>
    ELSE IF value.kind = "false" THEN <<"n", "o">>
    ELSE IF value.kind = "str"
    THEN IF \E c \in {" ", "=", "{", "}", "#"} : contains(value.text, <<c>>)
         THEN <<"\"">> \o value.text \o <<"\"">>
         ELSE value.text
    ELSE IF value.kind = "int" THEN value.text
    ELSE <<"N", "o", "n", "e">>

RECURSIVE _write_dict(_, _), _write_list(_, _), dict_lines(_, _), list_lines(_, _)

\* the lines the loop of _write_dict appends for the entries of d
dict_lines(d, indent_level) ==
    IF d.keys = <<>> THEN <<>>
    ELSE LET key == Head(d.keys)
             value == Head(d.vals)
             indent == indent_of(indent_level)
             rest == dict_lines(Dict(Tail(d.keys), Tail(d.vals)), indent_level)
         IN  IF _is_comparison(key)
             THEN <<indent \o _format_comparison(key)>> \o rest
             ELSE IF value.kind = "dict"
             THEN << indent \o key \o <<" ", "=", " ", "{">>,
                     _write_dict(value, indent_level + 1),
                     indent \o <<"}">> >> \o rest
             ELSE IF value.kind = "list"
             THEN LET list_content == _write_list(value, indent_level + 1)
                  IN  IF strip(list_content) # <<>>
                      THEN << indent \o key \o <<" ", "=", " ", "{">>,
                              list_content,
                              indent \o <<"}">> >> \o rest
                      ELSE rest
             ELSE <<indent \o key \o <<" ", "=", " ">> \o _write_value(value)>>
                  \o rest

\* the lines the loop of _write_list appends for the elements of lst
list_lines(lst, indent_level) ==
    IF lst.vals = <<>> THEN <<>>
    ELSE LET item == Head(lst.vals)
             rest == list_lines(List(Tail(lst.vals)), indent_level)
         IN  IF item.kind = "dict"
             THEN LET dict_content == _write_dict(item, indent_level)
                  IN  IF strip(dict_content) # <<>>
                      THEN <<dict_content>> \o rest ELSE rest
             ELSE IF item.kind = "list"
             THEN LET nested_content == _write_list(item, indent_level)
                  IN  IF strip(nested_content) # <<>>
                      THEN <<nested_content>> \o rest ELSE rest
             ELSE <<indent_of(indent_level) \o _write_value(item)>> \o rest

_write_dict(d, indent_level) == join_lines(dict_lines(d, indent_level))

\* every dict element is wrapped in braces of its own
write_list_braced(lst, indent_level) ==
    join_lines([i \in DOMAIN lst.vals |->
        IF lst.vals[i].kind = "dict"
        THEN indent_of(indent_level) \o <<"{", "\n">>
             \o _write_dict(lst.vals[i], indent_level + 1)
             \o <<"\n">> \o indent_of(indent_level) \o <<"}">>
        ELSE indent_of(indent_level) \o _write_value(lst.vals[i])])

_write_list(lst, indent_level) == join_lines(list_lines(lst, indent_level))

\* ParadoxWriter.write with indent_level 0, as dict_to_paradox calls it
write(obj) ==
    IF obj.kind = "none" THEN <<>>
    ELSE IF obj.kind = "dict" THEN _write_dict(obj, 0)
    ELSE IF obj.kind = "list" THEN _write_list(obj, 0)
    ELSE _write_value(obj)

----------------------------------------------------------------------------
(* ParadoxHelper *)

\* a helper call: its arguments, the exception it raised ("" when it
\* returned) and the value it returned
Call(name, arg, block_name, old_str, new_str, error, value) ==
    [name |-> name, tree |-> arg, block_name |-> block_name,
     old_str |-> old_str, new_str |-> new_str, error |-> error, value |-> value]

NoCall == Call("none", NoneNode, <<>>, <<>>, <<>>, "", NoneNode)

\* s.replace(old, new): every non-overlapping occurrence, from the left
RECURSIVE str_replace(_, _, _)
str_replace(s, old, new) ==
    IF old = <<>>
    THEN IF s = <<>> THEN new
         ELSE new \o <<Head(s)>> \o str_replace(Tail(s), old, new)
    ELSE IF Len(s) < Len(old) THEN s
    ELSE IF SubSeq(s, 1, Len(old)) = old
    THEN new \o str_replace(SubSeq(s, Len(old) + 1, Len(s)), old, new)
    ELSE <<Head(s)>> \o str_replace(Tail(s), old, new)

\* the replacement of a key or of a string leaf: only when the whole text,
\* stripped, equals old_str
replace_if_equal(s, old_str, new_str) ==
    IF strip(s) = old_str THEN str_replace(s, old_str, new_str) ELSE s

RECURSIVE replace_leaves(_, _, _), replace_items(_, _, _, _)

\* the loop over tree.items(): result[new_key] = replace_leaves(value, ...)
replace_items(d, old_str, new_str, res) ==
    IF d.keys = <<>> THEN res
    ELSE replace_items(Dict(Tail(d.keys), Tail(d.vals)), old_str, new_str,
             dict_set(res, replace_if_equal(Head(d.keys), old_str, new_str),
                      replace_leaves(Head(d.vals), old_str, new_str)))

replace_leaves(t, old_str, new_str) ==
    IF t.kind = "dict" THEN replace_items(t, old_str, new_str, EmptyDict)
    ELSE IF t.kind = "list"
    THEN List([i \in DOMAIN t.vals |-> replace_leaves(t.vals[i], old_str, new_str)])
    ELSE IF t.kind = "str" THEN Str(replace_if_equal(t.text, old_str, new_str))
    ELSE t

\* next(iter(tree)): the first key of a dict, the first element of a list;
\* an empty container raises StopIteration, None and booleans TypeError
get_root(t) ==
    IF t.kind = "dict"
    THEN IF t.keys = <<>> THEN [error |-> "StopIteration", root |-> <<>>]
         ELSE [error |-> "", root |-> t.keys[1]]
    ELSE IF t.kind = "list"
    THEN IF t.vals = <<>> THEN [error |-> "StopIteration", root |-> <<>>]
         ELSE [error |-> "", root |-> t.vals[1]]
    ELSE [error |-> "TypeError", root |-> <<>>]

\* tree[root].get(block_name, {}), then the wrapping of a block that is not
\* a list.  A list indexed by its first element raises TypeError; a root
\* value that is not a dict has no get and raises AttributeError
block_of(t, r, block_name) ==
    IF r.error # "" THEN [error |-> r.error, value |-> NoneNode]
    ELSE IF t.kind = "list" THEN [error |-> "TypeError", value |-> NoneNode]
    ELSE IF dict_get(t, r.root).kind # "dict"
    THEN [error |-> "AttributeError", value |-> NoneNode]
    ELSE IF ~dict_has(dict_get(t, r.root), block_name)
    THEN [error |-> "", value |-> List(<<EmptyDict>>)]
    ELSE IF dict_get(dict_get(t, r.root), block_name).kind = "list"
    THEN [error |-> "", value |-> dict_get(dict_get(t, r.root), block_name)]
    ELSE [error |-> "",
          value |-> List(<<dict_get(dict_get(t, r.root), block_name)>>)]

get_script_block(t, block_name) == block_of(t, get_root(t), block_name)

----------------------------------------------------------------------------
(* heuristic_alloc of support_scripts/allocator.py.  Its floats are modelled
   by exact fractions num/den in lowest terms with den > 0; the weights are
   perfect squares, so that math.sqrt is exact too. *)

RECURSIVE gcd(_, _)
gcd(a, b) == IF b = 0 THEN a ELSE gcd(b, a % b)

abs(a) == IF a < 0 THEN -a ELSE a

lowest_terms(n, d, g) == [num |-> n \div g, den |-> d \div g]

\* n / d, d # 0
frac(n, d) ==
    IF d < 0 THEN lowest_terms(-n, -d, gcd(abs(n), abs(d)))
    ELSE lowest_terms(n, d, gcd(abs(n), abs(d)))

\* 0.0
zero == frac(0, 1)

add(a, b) == frac(a.num * b.den + b.num * a.den, a.den * b.den)

sub(a, b) == frac(a.num * b.den - b.num * a.den, a.den * b.den)

mul(a, b) == frac(a.num * b.num, a.den * b.den)

\* a / b, b # 0
div(a, b) == frac(a.num * b.den, a.den * b.num)

\* max(0.0, a)
max0(a) == IF a.num > 0 THEN a ELSE zero

\* sum(xs)
RECURSIVE sum(_)
sum(xs) == IF xs = <<>> THEN zero ELSE add(Head(xs), sum(Tail(xs)))

\* math.sqrt of a perfect square
sqrt(w) == CHOOSE k \in 0..w : k * k = w

\* every allocation is 1.0
ones(n) == [i \in 1..n |-> frac(1, 1)]

\* [0.0] * n
zeros(n) == [i \in 1..n |-> zero]

\* what heuristic_alloc returns
Allocation(names, x, values, total) ==
    [names |-> names, x |-> x, values |-> values, total |-> total]

\* B * avg_sqrt_w / (M / n + avg_shift), whose square is lam
root_lam(initiatives, M, B, n) ==
    div(mul(frac(B, 1),
            div(sum([i \in 1..n |-> frac(sqrt(initiatives[i].w), 1)]),
                frac(n, 1))),
        add(frac(M, n),
            div(sum([i \in 1..n |-> frac(B + initiatives[i].x0, 1)]),
                frac(n, 1))))

\* x_raw: max(0.0, B * sqrt(w / lam) - B - x0) per initiative
x_raw(initiatives, B, n, r) ==
    [i \in 1..n |->
        max0(sub(div(frac(B * sqrt(initiatives[i].w), 1), r),
                 frac(B + initiatives[i].x0, 1)))]

\* the budget is enforced: x_raw scaled by M / S when S > 0, zeros otherwise
scaled(raw, M, n, S) ==
    IF S.num > 0 THEN [i \in 1..n |-> mul(raw[i], div(frac(M, 1), S))]
    ELSE zeros(n)

\* (x0 + x) * B / (B + x0 + x) per initiative
values_of(initiatives, B, n, x) ==
    [i \in 1..n |->
        div(mul(add(frac(initiatives[i].x0, 1), x[i]), frac(B, 1)),
            add(frac(B + initiatives[i].x0, 1), x[i]))]

with_values(names, x, values) == Allocation(names, x, values, sum(values))

with_x(initiatives, B, n, x) ==
    with_values([i \in 1..n |-> initiatives[i].name], x,
                values_of(initiatives, B, n, x))

with_raw(initiatives, M, B, n, raw) ==
    with_x(initiatives, B, n, scaled(raw, M, n, sum(raw)))

heuristic_alloc(initiatives, M, B) ==
    IF Len(initiatives) = 0 \/ M <= 0
    THEN Allocation(<<>>, zeros(Len(initiatives)), zeros(Len(initiatives)), zero)
    ELSE with_raw(initiatives, M, B, Len(initiatives),
                  x_raw(initiatives, B, Len(initiatives),
                        root_lam(initiatives, M, B, Len(initiatives))))

\* a call of heuristic_alloc, before and after it returned
AllocCall(initiatives, M, B, returned, out) ==
    [initiatives |-> initiatives, M |-> M, B |-> B, returned |-> returned,
     out |-> out]

NoAlloc == AllocCall(<<>>, 0, 1, FALSE, Allocation(<<>>, <<>>, <<>>, zero))

----------------------------------------------------------------------------
(* BaseHandler *)

\* handlers: cls.handlers; phase: where parse_and_update is ("parse", "loop",
\* "write", "done", "raised"); index: the handlers called so far, then the
\* outputs written so far; invoked: the names of the handlers called, in
\* order; outputs: the list outputs; files: the files written, in order;
\* error: where the exception that ended the construction came from
Run(handlers, phase, index, invoked, outputs, files, error) ==
    [handlers |-> handlers, phase |-> phase, index |-> index,
     invoked |-> invoked, outputs |-> outputs, files |-> files,
     error |-> error]

NoRun == Run(<<>>, "none", 0, <<>>, <<>>, <<>>, "")

\* an attribute of the class: a plain one, or a method marked by @handler
\* with the file it writes to and whether its body raises
Attr(is_handler, filename, raises) ==
    [is_handler |-> is_handler, filename |-> filename, raises |-> raises]

\* a registered handler: the name of its attribute, its file, how it ends
Handler(name, filename, raises) ==
    [name |-> name, filename |-> filename, raises |-> raises]

RECURSIVE collect(_, _)

\* the loop over dir(cls) from attribute i on: the attributes that are marked
collect(namespace, i) ==
    IF i > Len(namespace) THEN <<>>
    ELSE (IF namespace[i].is_handler
          THEN <<Handler(i, namespace[i].filename, namespace[i].raises)>>
          ELSE <<>>)
         \o collect(namespace, i + 1)

\* cls.handlers as HandlerMeta.__new__ sets it; the attribute names are the
\* indices of the namespace, which dir() gives in sorted order
handlers_of(namespace) == collect(namespace, 1)

\* HandlerMeta.__new__ returns the class: no two of its handlers have the
\* same file key.  For a second handler of a file it calls warnings.warn,
\* and the module never imports warnings: NameError, the class does not exist
class_is_created(namespace) ==
    \A i, j \in DOMAIN handlers_of(namespace) :
        i # j => handlers_of(namespace)[i].filename # handlers_of(namespace)[j].filename

\* the triple [folder, content, filename] a wrapper returns; the model keeps
\* the file name and the handler that made it
Output(h) == [filename |-> h.filename, name |-> h.name]

\* the for loop over any handler at all has been entered
loop_entered(r) == r.index >= 0

\* the for loop over self.handlers has called every handler
loop_finished(r) == r.index = Len(r.handlers)

----------------------------------------------------------------------------
(* Inputs *)

Alphabet == {"a", "=", "{", "}", " ", "\t", "\r", "\n", "#", "\"", "<"}

\* every text of at most MaxLen characters of the alphabet
BoundedTexts == UNION {[1..n -> Alphabet] : n \in 0..MaxLen}

\* a = 1\na = 2
text_a1_a2 ==
    <<"a", " ", "=", " ", "1", "\n", "a", " ", "=", " ", "2">>

\* a\na = 1
text_a_a1 ==
    <<"a", "\n", "a", " ", "=", " ", "1">>

\* key = "a b"
text_key_quoted ==
    <<"k", "e", "y", " ", "=", " ", "\"", "a", " ", "b", "\"">>

\* key = plain
text_key_plain ==
    <<"k", "e", "y", " ", "=", " ", "p", "l", "a", "i", "n">>

\* the end-to-end example, over six lines:
\* my_institution = { icon = "gfx/icon.dds" possible = { has_variable = foo } }
text_institution ==
    <<"m", "y", "_", "i", "n", "s", "t", "i", "t", "u", "t", "i", "o", "n",
      " ", "=", " ", "{", "\n", " ", " ", " ", " ", "i", "c", "o", "n",
      " ", "=", " ", "\"", "g", "f", "x", "/", "i", "c", "o", "n", ".",
      "d", "d", "s", "\"", "\n", " ", " ", " ", " ", "p", "o", "s", "s",
      "i", "b", "l", "e", " ", "=", " ", "{", "\n", " ", " ", " ", " ",
      " ", " ", " ", " ", "h", "a", "s", "_", "v", "a", "r", "i", "a", "b",
      "l", "e", " ", "=", " ", "f", "o", "o", "\n", " ", " ", " ", " ",
      "}", "\n", "}">>

\* {a=1 b=2 a=3}
text_repeated_assign ==
    <<"{", "a", "=", "1", " ", "b", "=", "2", " ", "a", "=", "3", "}">>

\* {a b a a}
text_repeated_bare ==
    <<"{", "a", " ", "b", " ", "a", " ", "a", "}">>

\* {a b=1 a=2 a}
text_mixed ==
    <<"{", "a", " ", "b", "=", "1", " ", "a", "=", "2", " ", "a", "}">>

\* {a={b=1 b=2} a}
text_list_then_bare ==
    <<"{", "a", "=", "{", "b", "=", "1", " ", "b", "=", "2", "}", " ", "a",
      "}">>

\* {a={b} a={b b} a}
text_nested_repeat ==
    <<"{", "a", "=", "{", "b", "}", " ", "a", "=", "{", "b", " ", "b", "}",
      " ", "a", "}">>

\* {a=1 =2}
text_empty_key ==
    <<"{", "a", "=", "1", " ", "=", "2", "}">>

\* "a b" = 1
text_quoted_item ==
    <<"\"", "a", " ", "b", "\"", " ", "=", " ", "1">>

\* {"a b" = 1}
text_quoted_item_braced == <<"{">> \o text_quoted_item \o <<"}">>

\* a > b
text_a_gt_b == <<"a", " ", ">", " ", "b">>

\* {a >= b}
text_a_ge_b == <<"{", "a", " ", ">", "=", " ", "b", "}">>

\* {a #c\n\t<b c}
text_a_lt_b_c ==
    <<"{", "a", " ", "#", "c", "\n", "\t", "<", "b", " ", "c", "}">>

\* {x = a < b}
text_x_a_lt_b == <<"{", "x", " ", "=", " ", "a", " ", "<", " ", "b", "}">>

\* {a < b = 1}
text_a_lt_b_1 == <<"{", "a", " ", "<", " ", "b", " ", "=", " ", "1", "}">>

\* {a == b}
text_a_eqeq_b == <<"{", "a", " ", "=", "=", " ", "b", "}">>

ExampleTexts ==
    {text_a1_a2, text_a_a1, text_key_quoted, text_key_plain, text_institution,
     text_repeated_assign, text_repeated_bare, text_mixed, text_list_then_bare,
     text_nested_repeat, text_empty_key, text_quoted_item,
     text_quoted_item_braced, text_a_gt_b, text_a_ge_b, text_a_lt_b_c,
     text_x_a_lt_b, text_a_lt_b_1, text_a_eqeq_b}

Texts == BoundedTexts \cup ExampleTexts

\* the texts of the Scalar leaves and the key orders of the generated Tables
ScalarTexts == {<<"1">>, <<"a", " ", "b">>}

KeyOrders == {<<>>, << <<"a">> >>, << <<"a">>, <<"b">> >>}

\* the Tables of unique-keyed assignments nested at most depth deep
RECURSIVE AssignmentTables(_)
AssignmentTables(depth) ==
    IF depth = 0 THEN {}
    ELSE LET values == {Str(s) : s \in ScalarTexts}
                       \cup AssignmentTables(depth - 1)
         IN  UNION {{Dict(ks, vs) : vs \in [DOMAIN ks -> values]} :
                    ks \in KeyOrders}

\* {grp: [{a: 1}, {b: 2}]}
tree_grp ==
    Dict(<< <<"g", "r", "p">> >>,
         << List(<< Dict(<< <<"a">> >>, << Str(<<"1">>) >>),
                    Dict(<< <<"b">> >>, << Str(<<"2">>) >>) >>) >>)

\* the texts of further Scalar leaves: a\tb  a<b  a>b  "a b"  a#
LeafTexts ==
    {<<"a", "\t", "b">>, <<"a", "<", "b">>, <<"a", ">", "b">>,
     <<"\"", "a", " ", "b", "\"">>, <<"a", "#">>}

\* the leaves a tree can hold: strings, numbers, None, True and False
Leaves ==
    {Str(s) : s \in ScalarTexts \cup LeafTexts}
    \cup {Num(n) : n \in {5, 12}} \cup {NoneNode, TrueNode, FalseNode}

\* {a: leaf} and the leaf alone
LeafTrees == Leaves \cup {Dict(<< <<"a">> >>, <<leaf>>) : leaf \in Leaves}

\* {a: [v1, ..., vn]} with n <= MaxList Scalars
ListTables ==
    UNION {{Dict(<< <<"a">> >>, <<List(vs)>>) :
                vs \in [1..n -> {Str(<<"1">>), Str(<<"b">>)}]} : n \in 0..MaxList}

\* {a: True}, {a: True, b: True}, {a: True, b: 1}
FlagTables ==
    {Dict(<< <<"a">> >>, <<TrueNode>>),
     Dict(<< <<"a">>, <<"b">> >>, <<TrueNode, TrueNode>>),
     Dict(<< <<"a">>, <<"b">> >>, <<TrueNode, Str(<<"1">>)>>)}

\* [["1", ["b"]], {b: [5]}], {a: [[], [{}]]}, [{a: 1}, {a: b}],
\* {a: {b: [None, True]}}, [], {a>b: True}, {k: [{a: 1}, {a: b}]}
NestedTrees ==
    {List(<<List(<<Str(<<"1">>), List(<<Str(<<"b">>)>>)>>),
            Dict(<< <<"b">> >>, <<List(<<Num(5)>>)>>)>>),
     Dict(<< <<"a">> >>, <<List(<<List(<<>>), List(<<EmptyDict>>)>>)>>),
     List(<<Dict(<< <<"a">> >>, <<Str(<<"1">>)>>),
            Dict(<< <<"a">> >>, <<Str(<<"b">>)>>)>>),
     Dict(<< <<"a">> >>,
          <<Dict(<< <<"b">> >>, <<List(<<NoneNode, TrueNode>>)>>)>>),
     List(<<>>),
     Dict(<< <<"a", ">", "b">> >>, <<TrueNode>>),
     Dict(<< <<"k">> >>,
          <<List(<<Dict(<< <<"a">> >>, <<Str(<<"1">>)>>),
                   Dict(<< <<"a">> >>, <<Str(<<"b">>)>>)>>)>>)}

\* {x: {a>b: 1, c: 2}}
tree_cmp_nested ==
    Dict(<< <<"x">> >>,
         <<Dict(<< <<"a", ">", "b">>, <<"c">> >>, <<Str(<<"1">>), Str(<<"2">>)>>)>>)

\* {a>=b: 1}, {a<b: {c: 1}}, {a=b: [1, 2]}, {a!=b: True}, {a>b<=c: True},
\* {a<>b: True}, {a =b: True}, {x: {a>b: 1, c: 2}}
ComparisonTables ==
    {Dict(<< <<"a", ">", "=", "b">> >>, <<Str(<<"1">>)>>),
     Dict(<< <<"a", "<", "b">> >>, <<Dict(<< <<"c">> >>, <<Str(<<"1">>)>>)>>),
     Dict(<< <<"a", "=", "b">> >>, <<List(<<Str(<<"1">>), Str(<<"2">>)>>)>>),
     Dict(<< <<"a", "!", "=", "b">> >>, <<TrueNode>>),
     Dict(<< <<"a", ">", "b", "<", "=", "c">> >>, <<TrueNode>>),
     Dict(<< <<"a", "<", ">", "b">> >>, <<TrueNode>>),
     Dict(<< <<"a", " ", "=", "b">> >>, <<TrueNode>>),
     tree_cmp_nested}

Trees ==
    AssignmentTables(MaxDepth) \cup {tree_grp} \cup LeafTrees \cup ListTables
    \cup FlagTables \cup NestedTrees \cup ComparisonTables

\* the block names asked for, and the strings replaced and put in
BlockNames == {<<"a">>, <<"b">>}

OldStrs == {<<"a">>, <<"1">>}

NewStrs == {<<"b">>}

\* the initiatives (name, w, x0), the budgets M and the saturations B
InitiativeNames == <<"A", "B", "C", "D">>

Weights == {1, 4}

Baselines == {0, 1}

Initiatives ==
    UNION {{[i \in 1..n |-> [name |-> InitiativeNames[i], w |-> ws[i], x0 |-> bs[i]]] :
                ws \in [1..n -> Weights], bs \in [1..n -> Baselines]} :
           n \in 0..MaxInitiatives}

Budgets == (-MaxBudget)..MaxBudget

Saturations == {1, 2}

\* the output files of the handlers
Filenames == {"x", "y", "z"}

\* the attributes a class body can hold
Attrs ==
    {Attr(FALSE, "", FALSE)}
    \cup {Attr(TRUE, f, r) : f \in Filenames, r \in BOOLEAN}

\* the classes: up to MaxAttrs attributes, in the order of their names
Namespaces == UNION {[1..n -> Attrs] : n \in 0..MaxAttrs}

----------------------------------------------------------------------------
(* The state machine *)

Init ==
    /\ pos = 0
    /\ call = NoCall
    /\ alloc = NoAlloc
    /\ token = NoToken
    /\ run = NoRun
    /\ result = NoneNode
    /\ written = <<>>
    /\ retItems = <<>>
    /\ retValue = NoneNode
    /\ \/ /\ origin = "text"
          /\ text \in Texts
          /\ input = text
          /\ tree = NoneNode
          /\ stack = <<Frame(<<>>)>>
          /\ status = "parsing"
          /\ parses = 1
       \/ /\ origin = "tree"
          /\ tree \in Trees
          /\ text = <<>>
          /\ input = <<>>
          /\ stack = <<>>
          /\ status = "idle"
          /\ parses = 0

\* dict_to_paradox: the tree given at the start, or the tree the first parse
\* returned, is written
DictToParadox ==
    /\ \/ status = "idle"
       \/ status = "returned" /\ origin = "text" /\ parses = 1
    /\ tree' = IF status = "idle" THEN tree ELSE result
    /\ written' = write(tree')
    /\ status' = "written"
    /\ UNCHANGED <<run, token, alloc, call, input, text, pos, stack, result, origin, parses, retItems,
                   retValue>>

\* ParadoxParser(content).parse() on the written text
ParseWritten ==
    /\ status = "written"
    /\ text' = written
    /\ pos' = 0
    /\ stack' = <<Frame(<<>>)>>
    /\ status' = "parsing"
    /\ parses' = parses + 1
    /\ result' = NoneNode
    /\ UNCHANGED <<run, token, alloc, call, input, tree, written, origin, retItems, retValue>>

\* a handler asks for a block of a tree parse_file returned
GetScriptBlock ==
    /\ status = "returned" /\ origin = "text" /\ parses = 1
    /\ \E block_name \in BlockNames :
           call' = Call("get_script_block", result, block_name, <<>>, <<>>,
                        get_script_block(result, block_name).error,
                        get_script_block(result, block_name).value)
    /\ status' = "called"
    /\ UNCHANGED <<run, token, alloc, input, text, pos, stack, result, tree, written, origin,
                   parses,
                   retItems, retValue>>

\* the tree a helper call is made on: the tree given at the start or the
\* tree the first parse returned
Subject == IF status = "idle" THEN tree ELSE result

\* replace_leaves on the tree given at the start or on a parsed tree
ReplaceLeaves ==
    /\ \/ status = "idle"
       \/ status = "returned" /\ origin = "text" /\ parses = 1
    /\ \E old_str \in OldStrs, new_str \in NewStrs :
           call' = Call("replace_leaves", Subject, <<>>, old_str, new_str, "",
                        replace_leaves(Subject, old_str, new_str))
    /\ status' = "called"
    /\ UNCHANGED <<run, token, alloc, input, text, pos, stack, result, tree, written, origin,
                   parses,
                   retItems, retValue>>

\* the cursor after the optional opening brace
after_brace(t, p1) == IF current_char(t, p1) = "{" THEN advance(p1) ELSE p1

\* parse_object up to its loop: skip_whitespace and the optional opening brace
ObjectEnter ==
    /\ status = "parsing"
    /\ Top.pc = "enter"
    /\ pos' = after_brace(text, skip_whitespace(text, pos))
    /\ stack' = SetTop([Top EXCEPT !.pc = "loop"])
    /\ UNCHANGED <<run, token, alloc, call, input, text, status, result, tree, written, origin, parses,
                   retItems, retValue>>

\* the item of outcome o is appended to the items of the running activation
AppendItem(o, has_operator) ==
    /\ pos' = o.pos
    /\ stack' = SetTop([Top EXCEPT
           !.items = Append(@, Item(o.key, o.value, has_operator))])
    /\ UNCHANGED <<run, token, alloc, call, input, text, status, result, tree, written, origin, parses,
                   retItems, retValue>>

Bare(o) ==
    /\ o.tag = "bare"
    /\ o.pos > pos \/ Len(Top.items) < MaxItems
    /\ AppendItem(o, FALSE)

\* a pass that records a standalone key
LoopBare ==
    /\ status = "parsing"
    /\ Top.pc = "loop"
    /\ Bare(loop_body(text, pos))

Assign(o) ==
    /\ o.tag = "assign"
    /\ AppendItem(o, TRUE)

\* a pass that records key = value with a value read without a nested object
LoopAssign ==
    /\ status = "parsing"
    /\ Top.pc = "loop"
    /\ Assign(loop_body(text, pos))

Object(o) ==
    /\ o.tag = "object"
    /\ pos' = o.pos
    /\ stack' = Append(stack, Frame(o.key))
    /\ UNCHANGED <<run, token, alloc, call, input, text, status, result, tree, written, origin, parses,
                   retItems, retValue>>

\* a pass that reads key = and calls parse_object for the value
LoopObject ==
    /\ status = "parsing"
    /\ Top.pc = "loop"
    /\ Object(loop_body(text, pos))

Raise(o) ==
    /\ o.tag = "raise"
    /\ pos' = o.pos
    /\ stack' = <<>>
    /\ status' = "raised"
    /\ UNCHANGED <<run, token, alloc, call, input, text, result, tree, written, origin, parses,
                   retItems, retValue>>

\* a pass in which parse_comparison_or_value raises TypeError; nothing
\* catches it, so parse() raises
LoopRaise ==
    /\ status = "parsing"
    /\ Top.pc = "loop"
    /\ Raise(loop_body(text, pos))

\* parse_object returns node: to parse(), or to the pass of the caller, which
\* appends its item
Return(node) ==
    /\ retItems' = Top.items
    /\ retValue' = node
    /\ IF Len(stack) = 1
       THEN /\ stack' = <<>>
            /\ result' = node
            /\ status' = "returned"
       ELSE /\ stack' = [SubSeq(stack, 1, Len(stack) - 1) EXCEPT
                  ![Len(stack) - 1].items = Append(@, Item(Top.key, node, TRUE))]
            /\ UNCHANGED <<result, status>>
    /\ UNCHANGED <<run, token, alloc, call, input, text, tree, written, origin, parses>>

Break(o) ==
    /\ o.tag = "break"
    /\ pos' = o.pos
    /\ Return(classify(Top.items))

\* the loop is left: the items are classified and the node is returned
LoopBreak ==
    /\ status = "parsing"
    /\ Top.pc = "loop"
    /\ Break(loop_body(text, pos))

Next ==
    \/ DictToParadox
    \/ ParseWritten
    \/ GetScriptBlock
    \/ ReplaceLeaves
    \/ ObjectEnter
    \/ LoopBare
    \/ LoopAssign
    \/ LoopObject
    \/ LoopRaise
    \/ LoopBreak

Spec == Init /\ [][Next]_vars

----------------------------------------------------------------------------
(* The allocator *)

InitAlloc ==
    /\ origin = "alloc"
    /\ status = "idle"
    /\ \E initiatives \in Initiatives, M \in Budgets, B \in Saturations :
           alloc = AllocCall(initiatives, M, B, FALSE,
                             Allocation(<<>>, <<>>, <<>>, zero))
    /\ input = <<>> /\ text = <<>> /\ pos = 0 /\ stack = <<>>
    /\ result = NoneNode /\ tree = NoneNode /\ written = <<>>
    /\ parses = 0 /\ retItems = <<>> /\ retValue = NoneNode
    /\ call = NoCall /\ token = NoToken /\ run = NoRun

\* heuristic_alloc(initiatives, M, B) runs and returns
HeuristicAlloc ==
    /\ origin = "alloc" /\ status = "idle"
    /\ alloc' = [alloc EXCEPT
           !.returned = TRUE,
           !.out = heuristic_alloc(alloc.initiatives, alloc.M, alloc.B)]
    /\ status' = "called"
    /\ UNCHANGED <<run, token, call, input, text, pos, stack, result, tree,
                   written, origin, parses, retItems, retValue>>

NextAlloc == HeuristicAlloc

SpecAlloc == InitAlloc /\ [][NextAlloc]_vars

----------------------------------------------------------------------------
(* The cursor and reader methods of ParadoxParser, called one by one *)

ReaderAlphabet == {"a", "\"", "'", "\\", " ", "\t", "\r", "\n", "#"}

\* "a\"b" c
text_escaped_quote == <<"\"", "a", "\\", "\"", "b", "\"", " ", "c">>

\* 'a"b' c
text_other_quote == <<"'", "a", "\"", "b", "'", " ", "c">>

\* "a\\" b"
text_escaped_backslash == <<"\"", "a", "\\", "\\", "\"", " ", "b", "\"">>

\* #a" \n\t 'b
text_comment_lines ==
    <<"#", "a", "\"", " ", "\n", "\t", " ", "'", "b">>

ReaderTexts ==
    UNION {[1..n -> ReaderAlphabet] : n \in 0..MaxLen}
    \cup {text_escaped_quote, text_other_quote, text_escaped_backslash,
          text_comment_lines}

InitReader ==
    /\ origin = "reader"
    /\ status = "idle"
    /\ text \in ReaderTexts
    /\ input = text
    /\ pos = 0
    /\ token = NoToken
    /\ stack = <<>> /\ result = NoneNode /\ tree = NoneNode /\ written = <<>>
    /\ parses = 0 /\ retItems = <<>> /\ retValue = NoneNode
    /\ call = NoCall /\ alloc = NoAlloc /\ run = NoRun

\* a reader method moved the cursor to p and returned val
Read(op, p, val) ==
    /\ pos' = p
    /\ token' = Token(op, pos, val)
    /\ UNCHANGED <<run, alloc, call, input, text, stack, status, result, tree,
                   written, origin, parses, retItems, retValue>>

\* advance(); the calls are followed up to one position past the end
Advance ==
    /\ origin = "reader" /\ pos <= Len(text)
    /\ Read("advance", advance(pos), <<>>)

SkipWhitespace ==
    /\ origin = "reader"
    /\ Read("skip_whitespace", skip_whitespace(text, pos), <<>>)

\* parse_string(), called as parse_value calls it: at a quote character
ParseString ==
    /\ origin = "reader" /\ current_char(text, pos) \in {"\"", "'"}
    /\ Read("parse_string", parse_string(text, pos).pos, parse_string(text, pos).val)

ParseIdentifier ==
    /\ origin = "reader"
    /\ Read("parse_identifier", parse_identifier(text, pos).pos,
            parse_identifier(text, pos).val)

NextReader ==
    \/ Advance
    \/ SkipWhitespace
    \/ ParseString
    \/ ParseIdentifier

SpecReader == InitReader /\ [][NextReader]_vars

----------------------------------------------------------------------------
(* The construction of a BaseHandler subclass: __init__ calls
   parse_and_update, one action per statement that can end it *)

InitHandler ==
    /\ origin = "handler"
    /\ status = "idle"
    /\ \E namespace \in {n \in Namespaces : class_is_created(n)} :
           run = Run(handlers_of(namespace), "parse", 0, <<>>, <<>>, <<>>, "")
    /\ input = <<>> /\ text = <<>> /\ pos = 0 /\ stack = <<>>
    /\ result = NoneNode /\ tree = NoneNode /\ written = <<>>
    /\ parses = 0 /\ retItems = <<>> /\ retValue = NoneNode
    /\ call = NoCall /\ alloc = NoAlloc /\ token = NoToken

\* the construction goes on to r
Step(r) ==
    /\ run' = r
    /\ UNCHANGED <<token, alloc, call, input, text, pos, stack, status, result,
                   tree, written, origin, parses, retItems, retValue>>

\* self.trees = [parse_file(file) for file in files] returns
ParseFiles ==
    /\ origin = "handler" /\ run.phase = "parse"
    /\ Step([run EXCEPT !.phase = "loop"])

\* parse_file raises: open() fails, or the parser raises on the text
ParseRaises ==
    /\ origin = "handler" /\ run.phase = "parse"
    /\ Step([run EXCEPT !.phase = "raised", !.error = "parse"])

\* result = handler_wrapper(self) returns the triple, which is appended
HandlerReturns ==
    /\ origin = "handler" /\ run.phase = "loop"
    /\ ~loop_finished(run)
    /\ ~run.handlers[run.index + 1].raises
    /\ Step([run EXCEPT
           !.index = @ + 1,
           !.invoked = Append(@, run.handlers[run.index + 1].name),
           !.outputs = Append(@, Output(run.handlers[run.index + 1]))])

\* handler_wrapper(self) raises; nothing catches it
HandlerRaises ==
    /\ origin = "handler" /\ run.phase = "loop"
    /\ ~loop_finished(run)
    /\ run.handlers[run.index + 1].raises
    /\ Step([run EXCEPT
           !.phase = "raised", !.error = "handler",
           !.invoked = Append(@, run.handlers[run.index + 1].name)])

\* the loop is over: ParadoxHelper.write_handled_files(*outputs) is called
WriteHandledFiles ==
    /\ origin = "handler" /\ run.phase = "loop"
    /\ loop_finished(run)
    /\ Step([run EXCEPT !.phase = "write", !.index = 0])

\* one pass of the loop of write_handled_files: the file is written
WriteFile ==
    /\ origin = "handler" /\ run.phase = "write"
    /\ run.index < Len(run.outputs)
    /\ Step([run EXCEPT
           !.index = @ + 1,
           !.files = Append(@, run.outputs[run.index + 1])])

\* mkdir or open raises in a pass of the loop of write_handled_files
WriteRaises ==
    /\ origin = "handler" /\ run.phase = "write"
    /\ run.index < Len(run.outputs)
    /\ Step([run EXCEPT !.phase = "raised", !.error = "write"])

\* write_handled_files, parse_and_update and __init__ return
Constructed ==
    /\ origin = "handler" /\ run.phase = "write"
    /\ run.index = Len(run.outputs)
    /\ Step([run EXCEPT !.phase = "done"])

NextHandler ==
    \/ ParseFiles
    \/ ParseRaises
    \/ HandlerReturns
    \/ HandlerRaises
    \/ WriteHandledFiles
    \/ WriteFile
    \/ WriteRaises
    \/ Constructed

SpecHandler == InitHandler /\ [][NextHandler]_vars

----------------------------------------------------------------------------
(* Properties *)

\* the first parse() of a run that starts from a text has ended
FirstParseEnded ==
    origin = "text" /\ parses = 1 /\ status \in {"returned", "raised"}

\* C1: for every input text, parse() returns a tree and never raises.
C1_ParseNeverRaises == status # "raised"

\* a Table of unique-keyed assignments whose values are Scalars or such Tables
RECURSIVE IsAssignmentTable(_)
IsAssignmentTable(n) ==
    /\ n.kind = "dict"
    /\ \A i, j \in DOMAIN n.keys : n.keys[i] = n.keys[j] => i = j
    /\ \A i \in DOMAIN n.vals :
          n.vals[i].kind = "str" \/ IsAssignmentTable(n.vals[i])

\* b is a Table with the key set of the Table a, with the same Scalar text at
\* every leaf and, at every nested Table, the same again
RECURSIVE SameKeysAndLeaves(_, _)
SameKeysAndLeaves(a, b) ==
    /\ b.kind = "dict"
    /\ {a.keys[i] : i \in DOMAIN a.keys} = {b.keys[i] : i \in DOMAIN b.keys}
    /\ Len(a.keys) = Len(b.keys)
    /\ \A i \in DOMAIN a.keys : \A j \in DOMAIN b.keys :
          a.keys[i] = b.keys[j] =>
             IF a.vals[i].kind = "str"
             THEN b.vals[j].kind = "str" /\ b.vals[j].text = a.vals[i].text
             ELSE SameKeysAndLeaves(a.vals[i], b.vals[j])

\* C2: parsing the text written for a Table of unique-keyed assignments yields
\* a Table with the same key set at every level and the same Scalar text at
\* every leaf.
C2_RoundTrip ==
    (/\ origin = "tree"
     /\ IsAssignmentTable(tree)
     /\ status \in {"returned", "raised"})
    => (status = "returned" /\ SameKeysAndLeaves(tree, result))

\* C3: a top-level buffer without braces whose last token is a bare value
\* parses to the classified tree of all its items: `a = 1\na = 2` to the
\* EntryList [{a: 1}, {a: 2}] and `a\na = 1` to the Table {a: [Flag, 1]}.
C3_TopLevelBareTail ==
    /\ (FirstParseEnded /\ input = text_a1_a2)
       => (/\ status = "returned"
           /\ result = List(<< Dict(<< <<"a">> >>, << Str(<<"1">>) >>),
                               Dict(<< <<"a">> >>, << Str(<<"2">>) >>) >>))
    /\ (FirstParseEnded /\ input = text_a_a1)
       => (/\ status = "returned"
           /\ result = Dict(<< <<"a">> >>,
                            << List(<<TrueNode, Str(<<"1">>)>>) >>))

\* a parse_object activation has returned, and it had collected items
RegionReturned == retValue.kind # "none" /\ retItems # <<>>

AllAssigned == \A i \in DOMAIN retItems : retItems[i].has_operator

SomeKeyRepeats ==
    \E i, j \in DOMAIN retItems : i # j /\ retItems[i].key = retItems[j].key

\* C4: when every item of a region has an assignment operator and some key
\* repeats, parse_object returns a list with exactly one single-key Table per
\* item, in item order, the items of one key kept as separate elements.
C4_RepeatedAssignmentsKeptApart ==
    (RegionReturned /\ AllAssigned /\ SomeKeyRepeats)
    => (/\ retValue.kind = "list"
        /\ Len(retValue.vals) = Len(retItems)
        /\ \A i \in DOMAIN retItems :
              /\ retValue.vals[i].kind = "dict"
              /\ retValue.vals[i].keys = <<retItems[i].key>>
              /\ retValue.vals[i].vals = <<retItems[i].value>>)

\* a region of three assignments, two of them of one key, has returned
C4_Witness ==
    /\ RegionReturned /\ AllAssigned /\ SomeKeyRepeats
    /\ Len(retItems) = 3
    /\ retItems[1].key = retItems[3].key
    /\ retItems[1].key # retItems[2].key
    /\ retValue.kind = "list"

\* the values of the items of key k, in item order
RECURSIVE ValuesOf(_, _)
ValuesOf(items, k) ==
    IF items = <<>> THEN <<>>
    ELSE IF Head(items).key = k
    THEN <<Head(items).value>> \o ValuesOf(Tail(items), k)
    ELSE ValuesOf(Tail(items), k)

\* the first item of key k
FirstOf(items, k) ==
    CHOOSE i \in DOMAIN items :
        items[i].key = k /\ \A j \in 1..(i - 1) : items[j].key # k

\* C5: a region that is not all-assignment returns a Table whose keys are in
\* order of first appearance; a key occurring once maps to its item's value
\* and a key occurring k >= 2 times to a List of exactly the k values of its
\* items in order, whatever their kind.
C5_RepeatedKeyListsEveryValue ==
    (RegionReturned /\ ~AllAssigned)
    => (/\ retValue.kind = "dict"
        /\ {retValue.keys[n] : n \in DOMAIN retValue.keys}
              = {retItems[i].key : i \in DOMAIN retItems}
        /\ \A n, m \in DOMAIN retValue.keys :
              n < m => FirstOf(retItems, retValue.keys[n])
                          < FirstOf(retItems, retValue.keys[m])
        /\ \A n \in DOMAIN retValue.keys :
              LET values == ValuesOf(retItems, retValue.keys[n])
              IN  retValue.vals[n] =
                     IF Len(values) = 1 THEN values[1] ELSE List(values))

\* every Table of the tree n has unique keys
RECURSIVE UniqueKeys(_)
UniqueKeys(n) ==
    /\ \A i, j \in DOMAIN n.keys : n.keys[i] = n.keys[j] => i = j
    /\ \A i \in DOMAIN n.vals : UniqueKeys(n.vals[i])

\* the values stored under a key whose items have the values `values`: the
\* first value, or its elements when it is a list (the later values are
\* appended to that very list object), then one element per later item
StoredUnder(values) ==
    (IF values[1].kind = "list" THEN values[1].vals ELSE <<values[1]>>)
    \o Tail(values)

\* every item of the region is stored in the Table retValue: alone as the
\* value of its key, or in the List of its key, which holds nothing else
StoredInTable ==
    /\ {retValue.keys[n] : n \in DOMAIN retValue.keys}
          = {retItems[i].key : i \in DOMAIN retItems}
    /\ \A n \in DOMAIN retValue.keys :
          LET values == ValuesOf(retItems, retValue.keys[n])
          IN  IF Len(values) = 1 THEN retValue.vals[n] = values[1]
              ELSE /\ retValue.vals[n].kind = "list"
                   /\ retValue.vals[n].vals = StoredUnder(values)

\* every item of the region is stored in the EntryList retValue, as the one
\* entry of the single-key Table at its place
StoredInEntryList ==
    /\ Len(retValue.vals) = Len(retItems)
    /\ \A i \in DOMAIN retItems :
          /\ retValue.vals[i].kind = "dict"
          /\ Len(retValue.vals[i].keys) = 1
          /\ retValue.vals[i].keys[1] = retItems[i].key
          /\ retValue.vals[i].vals[1] = retItems[i].value

Blank(t, i) ==
    \/ t[i] \in {" ", "\t", "\r", "\n"}
    \/ \E j \in 1..i : t[j] = "#" /\ \A k \in j..i : t[k] # "\n"

OnlyWhitespaceAndComments(t) == \A i \in DOMAIN t : Blank(t, i)

\* C7: parsing a buffer of only whitespace and comments, the empty buffer and
\* an unterminated comment included, returns an empty Table: no item is ever
\* collected, no nested object is entered and nothing is raised.
C7_BlankBufferIsEmptyTable ==
    (origin = "text" /\ parses = 1 /\ OnlyWhitespaceAndComments(input))
    => (/\ status # "raised"
        /\ Len(stack) <= 1
        /\ \A f \in DOMAIN stack : stack[f].items = <<>>
        /\ status \in {"returned", "written"} => result = EmptyDict)

\* a buffer with a carriage return and a comment that no line feed ends
C7_Witness ==
    /\ origin = "text" /\ parses = 1 /\ status = "returned"
    /\ OnlyWhitespaceAndComments(input)
    /\ \E i, j \in DOMAIN input :
          input[i] = "\r" /\ input[j] = "#" /\ \A k \in j..Len(input) : input[k] # "\n"
    /\ result = EmptyDict

\* C8: `key = "a b"` parsed and serialized has its value in double quotes
\* again; `key = plain` parsed and serialized has the value plain unquoted.
C8_QuotesRoundTrip ==
    /\ (FirstParseEnded /\ input \in {text_key_quoted, text_key_plain})
       => status = "returned"
    /\ (origin = "text" /\ status = "written" /\ input = text_key_quoted)
       => written = <<"k", "e", "y", " ", "=", " ", "\"", "a", " ", "b", "\"">>
    /\ (origin = "text" /\ status = "written" /\ input = text_key_plain)
       => written = <<"k", "e", "y", " ", "=", " ", "p", "l", "a", "i", "n">>

my_institution == <<"m", "y", "_", "i", "n", "s", "t", "i", "t", "u", "t", "i", "o", "n">>

icon == <<"i", "c", "o", "n">>

possible == <<"p", "o", "s", "s", "i", "b", "l", "e">>

has_variable == <<"h", "a", "s", "_", "v", "a", "r", "i", "a", "b", "l", "e">>

\* {my_institution: {icon: gfx/icon.dds, possible: {has_variable: v}}}
InstitutionTree(v) ==
    Dict(<<my_institution>>,
         << Dict(<<icon, possible>>,
                 << Str(<<"g", "f", "x", "/", "i", "c", "o", "n", ".", "d", "d", "s">>),
                    Dict(<<has_variable>>, <<v>>) >>) >>)

\* the example parses to the tree t, and t written with a tab indent parses
\* to t again
InstitutionRoundTrip(t) ==
    (origin = "text" /\ input = text_institution)
    => (/\ status # "raised"
        /\ (parses = 1 /\ status = "returned") => result = t
        /\ status = "written" => tree = t
        /\ (parses = 2 /\ status = "returned") => (tree = t /\ result = t))

\* C9 as stated: the example parses to the tree in which has_variable is a
\* Flag, and that tree written with a tab indent parses to the same tree.
C9_ExampleAsStated == InstitutionRoundTrip(InstitutionTree(TrueNode))

\* C9 amended: the example parses to the tree in which has_variable is the
\* Scalar foo, and that tree written with a tab indent parses to the same
\* tree.
C9_Example == InstitutionRoundTrip(InstitutionTree(Str(<<"f", "o", "o">>)))

\* the example has been parsed, written and parsed again
C9_Witness ==
    /\ origin = "text" /\ input = text_institution
    /\ parses = 2 /\ status = "returned"
    /\ result = tree

\* grp = {\n\ta = 1\n\tb = 2\n}
text_grp_block ==
    <<"g", "r", "p", " ", "=", " ", "{", "\n",
      "\t", "a", " ", "=", " ", "1", "\n",
      "\t", "b", " ", "=", " ", "2", "\n",
      "}">>

\* C10: the List [{a: 1}, {b: 2}] under grp is written as one block grp = {
\* ... } holding the lines a = 1 and b = 2 without braces of their own, and
\* that block parses to the Table {grp: {a: 1, b: 2}}, not to a List.
C10_DistinctKeyListFlattens ==
    (origin = "tree" /\ tree = tree_grp)
    => (/\ status # "raised"
        /\ status \notin {"idle", "called"} => written = text_grp_block
        /\ status = "returned"
           => result = Dict(<< <<"g", "r", "p">> >>,
                            << Dict(<< <<"a">>, <<"b">> >>,
                                    << Str(<<"1">>), Str(<<"2">>) >>) >>))

\* the block written for the List under grp has been parsed
C10_Witness ==
    /\ origin = "tree" /\ tree = tree_grp
    /\ written = text_grp_block
    /\ status = "returned"
    /\ result.vals[1].kind = "dict"

\* no character of s is whitespace, a brace, an operator, a '#' or a quote
IsPlain(s) ==
    /\ s # <<>>
    /\ \A i \in DOMAIN s :
           s[i] \notin {" ", "\t", "\r", "\n", "{", "}", "=", "<", ">", "#",
                        "\"", "'", "!"}

\* the texts of the Scalars vs, with sep between them
RECURSIVE joined(_, _)
joined(vs, sep) ==
    IF vs = <<>> THEN <<>>
    ELSE IF Len(vs) = 1 THEN vs[1].text
    ELSE vs[1].text \o sep \o joined(Tail(vs), sep)

\* the written tree is a Table of one plain key whose value is a List of
\* one or more plain Scalars
ListOfScalarsWritten ==
    /\ status = "written"
    /\ tree.kind = "dict" /\ Len(tree.keys) = 1 /\ IsPlain(tree.keys[1])
    /\ tree.vals[1].kind = "list" /\ tree.vals[1].vals # <<>>
    /\ \A i \in DOMAIN tree.vals[1].vals :
           tree.vals[1].vals[i].kind = "str" /\ IsPlain(tree.vals[1].vals[i].text)

\* C11: a List of at most 3 Scalars under a key is written on one line as
\* key = { v1 v2 v3 }, and a List of 4 or more Scalars is written with one
\* element per line inside the braces.
C11_ShortListInline ==
    ListOfScalarsWritten
    => written =
           IF Len(tree.vals[1].vals) <= 3
           THEN tree.keys[1] \o <<" ", "=", " ", "{", " ">>
                \o joined(tree.vals[1].vals, <<" ">>) \o <<" ", "}">>
           ELSE tree.keys[1] \o <<" ", "=", " ", "{", "\n", "\t">>
                \o joined(tree.vals[1].vals, <<"\n", "\t">>) \o <<"\n", "}">>

\* C12: a Table entry whose value is Flag is written as the bare key alone on
\* its line, with no = and no value text: a Table of Flags is written as its
\* keys, one per line.
C12_FlagWrittenAsBareKey ==
    (/\ status = "written"
     /\ tree.kind = "dict" /\ tree.keys # <<>>
     /\ \A i \in DOMAIN tree.keys :
            tree.vals[i].kind = "true" /\ IsPlain(tree.keys[i]))
    => written = join_lines(tree.keys)

\* the text holds a space, tab, CR, LF, brace, =, <, > or #
HasSpecial(s) ==
    \E i \in DOMAIN s :
        s[i] \in {" ", "\t", "\r", "\n", "{", "}", "=", "<", ">", "#"}

\* the text is wrapped in matching quotes
IsQuoted(s) == Len(s) >= 2 /\ s[1] \in {"\"", "'"} /\ s[Len(s)] = s[1]

\* C13: the writer wraps the text of a Scalar in double quotes if and only if
\* the text holds a space, tab, CR, LF, {, }, =, <, > or # and is not already
\* wrapped in matching quotes; every other text is written unchanged.
C13_QuotedIffSpecial ==
    (status = "written" /\ tree.kind = "str")
    => written = IF HasSpecial(tree.text) /\ ~IsQuoted(tree.text)
                 THEN <<"\"">> \o tree.text \o <<"\"">>
                 ELSE tree.text

\* C14: write returns a string for every tree (Scalars, numbers, None, Flags,
\* Tables, Lists and EntryLists, nested), and a leaf that is neither a string
\* nor a boolean is written by its generic textual conversion: None alone is
\* the empty string, None under a key is the text None, a number its digits.
C14_WriteReturnsString ==
    /\ written \in Seq(STRING)
    /\ status = "written" =>
         /\ tree = NoneNode => written = <<>>
         /\ tree = Num(5) => written = <<"5">>
         /\ tree = Dict(<< <<"a">> >>, <<NoneNode>>)
                => written = <<"a", " ", "=", " ", "N", "o", "n", "e">>
         /\ tree = Dict(<< <<"a">> >>, <<Num(12)>>)
                => written = <<"a", " ", "=", " ", "1", "2">>

\* the Table {a: {b: [None, True]}} has been written
C14_Witness ==
    /\ status = "written" /\ origin = "tree"
    /\ tree = Dict(<< <<"a">> >>,
                   <<Dict(<< <<"b">> >>, <<List(<<NoneNode, TrueNode>>)>>)>>)
    /\ written = <<"a", " ", "=", " ", "{", "\n",
                   "\t", "b", " ", "=", " ", "{", "\n",
                   "\t", "\t", "N", "o", "n", "e", "\n",
                   "\t", "\t", "y", "e", "s", "\n",
                   "\t", "}", "\n", "}">>

\* get_script_block has been called on a non-empty tree the parser returned
BlockAsked ==
    /\ status = "called" /\ call.name = "get_script_block"
    /\ call.tree # EmptyDict /\ call.tree # List(<<>>)

\* C15: for every non-empty tree the parser can return (root Table or root
\* EntryList, with a root value of any kind) and every block name,
\* get_script_block returns a List without raising: the block itself when it
\* is a list, a one-element list wrapping the block otherwise, and a
\* one-element list holding an empty Table when the block is absent.
C15_BlockIsAlwaysAList ==
    BlockAsked
    => (/\ call.error = ""
        /\ call.value.kind = "list"
        /\ (call.tree.kind = "dict" /\ call.tree.vals[1].kind = "dict")
           => call.value =
                  IF ~dict_has(call.tree.vals[1], call.block_name)
                  THEN List(<<EmptyDict>>)
                  ELSE IF dict_get(call.tree.vals[1], call.block_name).kind = "list"
                  THEN dict_get(call.tree.vals[1], call.block_name)
                  ELSE List(<<dict_get(call.tree.vals[1], call.block_name)>>))

\* the tree in which every occurrence of old_str inside every string leaf is
\* replaced by new_str, the keys, the other leaves and the structure kept
RECURSIVE ReplacedInLeaves(_, _, _)
ReplacedInLeaves(t, old_str, new_str) ==
    IF t.kind = "dict"
    THEN Dict(t.keys, [i \in DOMAIN t.vals |->
                          ReplacedInLeaves(t.vals[i], old_str, new_str)])
    ELSE IF t.kind = "list"
    THEN List([i \in DOMAIN t.vals |->
                  ReplacedInLeaves(t.vals[i], old_str, new_str)])
    ELSE IF t.kind = "str" THEN Str(str_replace(t.text, old_str, new_str))
    ELSE t

\* C16: replace_leaves(tree, old_str, new_str) returns a new tree in which
\* every occurrence of old_str inside every string leaf is replaced by
\* new_str, with all other leaves and the tree structure unchanged.
C16_EveryOccurrenceReplaced ==
    (status = "called" /\ call.name = "replace_leaves")
    => (/\ call.error = ""
        /\ call.value = ReplacedInLeaves(call.tree, call.old_str, call.new_str))

\* heuristic_alloc has returned for a budget M <= 0
ZeroBudgetReturned == origin = "alloc" /\ alloc.returned /\ alloc.M <= 0

\* C17: for every initiatives list of length n and every budget M <= 0,
\* heuristic_alloc returns allocations that sum to 0 and a total value equal
\* to the sum of the returned per-initiative values.
C17_ZeroBudget ==
    ZeroBudgetReturned
    => (/\ Len(alloc.out.x) = Len(alloc.initiatives)
        /\ sum(alloc.out.x) = zero
        /\ alloc.out.total = sum(alloc.out.values))

\* the call has returned for two initiatives and a negative budget
C17_Witness ==
    /\ ZeroBudgetReturned
    /\ Len(alloc.initiatives) = 2 /\ alloc.M < 0
    /\ alloc.out.x = <<zero, zero>>

\* the running activation is at the head of its loop and, after whitespace
\* and comments, the next character is { or =: the key read there is empty
EmptyKeyRead ==
    /\ status = "parsing" /\ stack # <<>> /\ Top.pc = "loop"
    /\ current_char(text, skip_whitespace(text, pos)) \in {"{", "="}

\* C18: in the item loop of parse_object, when the key read at the current
\* position is empty (the next character is { or =), the loop stops
\* collecting items for that region and the region returns what was gathered
\* so far.
C18_EmptyKeyStopsLoop ==
    [][EmptyKeyRead => (Len(stack') < Len(stack) /\ retItems' = Top.items)]_vars

\* the only item of the region "a b" = 1 as the claim has it
item_a_b_1 == Item(<<"a", " ", "b">>, Str(<<"1">>), TRUE)

\* C19: a key is read by the value reader, so that a key that starts with a
\* quote is read as a quoted string: the region "a b" = 1, with or without
\* braces around it, yields one item whose key is the text a b and whose
\* value is Scalar(1).
C19_QuotedKeyIsUnquoted ==
    (/\ origin = "text"
     /\ input \in {text_quoted_item, text_quoted_item_braced}
     /\ FirstParseEnded)
    => (/\ status = "returned"
        /\ retItems = <<item_a_b_1>>
        /\ result = Dict(<< <<"a", " ", "b">> >>, <<Str(<<"1">>)>>))

\* the tree the first parse of an example text returns
Parsed(example, t) ==
    (origin = "text" /\ input = example /\ FirstParseEnded)
    => (status = "returned" /\ result = t)

\* a pass that records key = value with a Scalar value, or that calls
\* parse_object for the value
AssignmentPass ==
    /\ status = "parsing" /\ status' = "parsing"
    /\ \/ Len(stack') = Len(stack) + 1
       \/ /\ Len(stack') = Len(stack)
          /\ Len(stack'[Len(stack)].items) = Len(Top.items) + 1
          /\ stack'[Len(stack)].items[Len(Top.items) + 1].has_operator

\* C20: a bare token followed, after optional whitespace and comments, by <
\* or > (with = right after it or not) and a second bare token is read as the
\* one token first+operator+second without the whitespace; < and > never
\* separate a key from a value: a > b is one bare item with the key a>b and
\* the value Flag, and an item gets a value only in a pass that reads an =.
C20_ComparisonIsOneToken ==
    /\ [](/\ Parsed(text_a_gt_b, Dict(<< <<"a", ">", "b">> >>, <<TrueNode>>))
          /\ Parsed(text_a_ge_b, Dict(<< <<"a", ">", "=", "b">> >>, <<TrueNode>>))
          /\ Parsed(text_a_lt_b_c,
                    Dict(<< <<"a", "<", "b">>, <<"c">> >>, <<TrueNode, TrueNode>>))
          /\ Parsed(text_x_a_lt_b,
                    Dict(<< <<"x">> >>, <<Str(<<"a", "<", "b">>)>>))
          /\ Parsed(text_a_lt_b_1,
                    Dict(<< <<"a", "<", "b">> >>, <<Str(<<"1">>)>>))
          /\ Parsed(text_a_eqeq_b, Dict(<< <<"a">> >>, <<Str(<<"b">>)>>)))
    /\ [][AssignmentPass
          => contains(SubSeq(text, pos + 1, pos'), <<"=">>)]_vars

\* a > b has been parsed: its only item is the bare key a>b
C20_Witness ==
    /\ origin = "text" /\ input = text_a_gt_b
    /\ parses = 1 /\ status = "returned"
    /\ retItems = <<Item(<<"a", ">", "b">>, TrueNode, FALSE)>>

\* the number of backslashes that stand right before the character i of t,
\* counted back to the character lo
BackslashesBefore(t, lo, i) ==
    CHOOSE k \in 0..(i - lo) :
        /\ \A j \in (i - k)..(i - 1) : t[j] = "\\"
        /\ i - k = lo \/ t[i - k - 1] # "\\"

\* the character i is a backslash that escapes the character after it
Escapes(t, lo, i) == t[i] = "\\" /\ BackslashesBefore(t, lo, i) % 2 = 0

\* the character i stands right after an escaping backslash
Escaped(t, lo, i) == i > lo /\ Escapes(t, lo, i - 1)

\* the unescaped occurrences, from lo on, of the quote that stands at lo - 1
ClosingQuotes(t, lo) ==
    {i \in lo..Len(t) : t[i] = t[lo - 1] /\ ~Escaped(t, lo, i)}

\* the last character of the string that opens at lo - 1
LastOfString(t, lo) ==
    IF ClosingQuotes(t, lo) = {} THEN Len(t)
    ELSE (CHOOSE i \in ClosingQuotes(t, lo) :
              \A j \in ClosingQuotes(t, lo) : i <= j) - 1

\* the characters lo..hi of t without the escaping backslashes
Unescaped(t, lo, hi) ==
    LET kept == SelectSeq([n \in 1..(hi - lo + 1) |-> lo + n - 1],
                          LAMBDA i : ~Escapes(t, lo, i))
    IN  [n \in 1..Len(kept) |-> t[kept[n]]]

\* C21: parse_string returns the characters between the opening quote (" or
\* ') and the first unescaped occurrence of the same quote, each escaping
\* backslash dropped and the character after it copied, the other quote an
\* ordinary character; the cursor ends after the closing quote, or at the
\* end of the input when there is none, and what was collected is returned.
C21_StringBetweenQuotes ==
    token.op = "parse_string"
    => (/\ token.val = Unescaped(text, token.start + 2,
                                 LastOfString(text, token.start + 2))
        /\ pos = IF ClosingQuotes(text, token.start + 2) = {} THEN Len(text)
                 ELSE LastOfString(text, token.start + 2) + 1)

\* "a\"b" c has been read from its opening quote: the token is a"b
C21_Witness ==
    /\ text = text_escaped_quote
    /\ token = Token("parse_string", 0, <<"a", "\"", "b">>)
    /\ pos = 6

\* the character i of t lies in a comment that starts at or after from: a #
\* and what follows it up to, not including, the line feed
InComment(t, from, i) ==
    \E j \in from..i : t[j] = "#" /\ \A k \in j..i : t[k] # "\n"

\* C22: after skip_whitespace the cursor is at the end of the input or at a
\* character that is none of space, tab, CR, LF, #; every character it
\* skipped is whitespace or part of a comment that runs from a # up to, not
\* including, the next line feed.
C22_SkipsWhitespaceAndComments ==
    token.op = "skip_whitespace"
    => (/\ pos >= token.start
        /\ pos >= Len(text) \/ text[pos + 1] \notin {" ", "\t", "\r", "\n", "#"}
        /\ \A i \in (token.start + 1)..pos :
               \/ text[i] \in {" ", "\t", "\r", "\n"}
               \/ InComment(text, token.start + 1, i))

\* in #a" \n\t 'b the comment, the line feed and the blanks have been skipped
C22_Witness ==
    /\ text = text_comment_lines
    /\ token = Token("skip_whitespace", 0, <<>>)
    /\ pos = 7

\* C23: advance() moves the position forward by one while the position is
\* before the end of the text and leaves it unchanged when it is already at
\* or past the end.
C23_AdvanceStopsAtEnd ==
    token.op = "advance"
    => pos = IF token.start < Len(text) THEN token.start + 1 ELSE token.start

\* the cursor positions parse_comparison_or_value goes through from p: after
\* the first identifier, after the whitespace, and at its end
LookaheadTrail(t, first, p1) == <<first.pos, p1, after_first(t, first, p1).pos>>

TrailFrom(t, p) ==
    <<p>> \o LookaheadTrail(t, parse_identifier(t, p),
                            skip_whitespace(t, parse_identifier(t, p).pos))

NonDecreasing(trail) == \A n \in 1..(Len(trail) - 1) : trail[n] <= trail[n + 1]

\* parse() has just been called on the text
ParseStarts ==
    status = "parsing" /\ pos = 0 /\ Len(stack) = 1 /\ Top.pc = "enter"

\* C24: during a parse the cursor position never decreases from one step to
\* the next: not from one pass of parse_object to the next, and not inside
\* parse_comparison_or_value, whose lookahead reads forward only from
\* wherever it is called.
C24_CursorNeverDecreases ==
    /\ [][status = "parsing" => pos' >= pos]_vars
    /\ [](ParseStarts
          => \A p \in 0..Len(text) : NonDecreasing(TrailFrom(text, p)))

\* a > b has been parsed: the lookahead went over the operator to the end
C24_Witness ==
    /\ origin = "text" /\ input = text_a_gt_b
    /\ TrailFrom(text, 0) = <<0, 1, 2, 5>>
    /\ status = "returned" /\ pos = 5

\* an EntryList whose elements hold one plain key and a plain Scalar each
IsEntryList(n) ==
    /\ n.kind = "list" /\ n.vals # <<>>
    /\ \A i \in DOMAIN n.vals :
           /\ n.vals[i].kind = "dict" /\ Len(n.vals[i].keys) = 1
           /\ IsPlain(n.vals[i].keys[1])
           /\ n.vals[i].vals[1].kind = "str" /\ IsPlain(n.vals[i].vals[1].text)

\* the lines key = value of the elements of an EntryList, in their order
EntryLines(n, indent) ==
    [i \in DOMAIN n.vals |->
        indent \o n.vals[i].keys[1] \o <<" ", "=", " ">> \o n.vals[i].vals[1].text]

\* the text opens with { and closes with }
IsBlock(w) == w # <<>> /\ w[1] = "{" /\ w[Len(w)] = "}"

\* C25: an EntryList, as the root or as the value of a key, is written as the
\* entries of its element Tables in their order inside one shared { } block,
\* with no braces around the single elements.
C25_EntryListInOneBlock ==
    status = "written"
    => (/\ IsEntryList(tree)
           => (/\ IsBlock(written)
               /\ \A i \in DOMAIN tree.vals :
                      contains(written, EntryLines(tree, <<>>)[i]))
        /\ (/\ tree.kind = "dict" /\ Len(tree.keys) = 1 /\ IsPlain(tree.keys[1])
            /\ IsEntryList(tree.vals[1]))
           => written = tree.keys[1] \o <<" ", "=", " ", "{", "\n">>
                        \o join_lines(EntryLines(tree.vals[1], <<"\t">>))
                        \o <<"\n", "}">>)

\* C27: writing a Table emits every one of its keys: no entry is left out
\* whatever its value, an empty List or a List of empty Tables included.
C27_EveryKeyWritten ==
    (status = "written" /\ tree.kind = "dict")
    => \A i \in DOMAIN tree.keys :
           \/ contains(written, tree.keys[i])
           \/ /\ _is_comparison(tree.keys[i])
              /\ contains(written, _format_comparison(tree.keys[i]))

\* the operator a key is split at: the longer operators come first
OperatorOf(key) ==
    IF contains(key, <<">", "=">>) THEN <<">", "=">>
    ELSE IF contains(key, <<"<", "=">>) THEN <<"<", "=">>
    ELSE IF contains(key, <<"!", "=">>) THEN <<"!", "=">>
    ELSE IF contains(key, <<">">>) THEN <<">">>
    ELSE IF contains(key, <<"<">>) THEN <<"<">>
    ELSE <<"=">>

HasOperator(key) == \E c \in {">", "<", "="} : \E i \in DOMAIN key : key[i] = c

\* the sides of the first occurrence of the operator, stripped, with one space
\* on each side of the operator
ComparisonLine(key) ==
    LET op == OperatorOf(key)
        occurs(i) == i + Len(op) - 1 <= Len(key) /\ SubSeq(key, i, i + Len(op) - 1) = op
        at == CHOOSE i \in DOMAIN key : occurs(i) /\ \A j \in 1..(i - 1) : ~occurs(j)
    IN  strip(SubSeq(key, 1, at - 1)) \o <<" ">> \o op \o <<" ">>
        \o strip(SubSeq(key, at + Len(op), Len(key)))

\* C28: for a key that holds one of >= <= != > < = the writer emits only the
\* key, split at the first operator that matches (longer ones tried first)
\* with single spaces around it, on a line of its own, whatever the value of
\* the entry is: a Flag, a Scalar, a Table or a List.
C28_ComparisonKeyAlone ==
    status = "written"
    => (/\ (tree.kind = "dict" /\ Len(tree.keys) = 1 /\ HasOperator(tree.keys[1]))
           => written = ComparisonLine(tree.keys[1])
        /\ tree = tree_cmp_nested
           => written = <<"x", " ", "=", " ", "{", "\n",
                          "\t", "a", " ", ">", " ", "b", "\n",
                          "\t", "c", " ", "=", " ", "2", "\n", "}">>)

C28_Witness ==
    /\ status = "written"
    /\ tree = Dict(<< <<"a", ">", "=", "b">> >>, <<Str(<<"1">>)>>)
    /\ written = <<"a", " ", ">", "=", " ", "b">>

\* a pass of the item loop after which the loop goes on: it appended an item
\* or called parse_object for the value of one
LoopGoesOn ==
    /\ status = "parsing" /\ stack # <<>> /\ Top.pc = "loop"
    /\ status' = "parsing" /\ Len(stack') >= Len(stack)

\* C26: parse() terminates on every finite text: every pass of the item loop
\* of parse_object moves the cursor forward by at least one character, also
\* when { or another delimiter stands where a key is expected.
C26_LoopPassAdvances == [][LoopGoesOn => pos' > pos]_vars

\* how many times the handler h was called
Invocations(h) == Cardinality({i \in DOMAIN run.invoked : run.invoked[i] = h.name})

\* every registered handler was called once and returned its output
AllReturned ==
    /\ \A i \in DOMAIN run.handlers : Invocations(run.handlers[i]) = 1
    /\ run.outputs = [i \in DOMAIN run.handlers |-> Output(run.handlers[i])]

\* C29: when a BaseHandler subclass is constructed, every handler registered
\* for the class is called exactly once (never twice, and once each when the
\* construction is through), no output file is written until all of them
\* have returned, and when a handler raises no file of the class is written.
C29_HandlersThenFiles ==
    /\ \A i \in DOMAIN run.handlers : Invocations(run.handlers[i]) <= 1
    /\ run.files # <<>> => AllReturned
    /\ run.phase \in {"write", "done"} => AllReturned
    /\ run.phase = "done" => run.files = run.outputs
    /\ run.error = "handler" => run.files = <<>>

C29_Witness ==
    /\ run.phase = "done"
    /\ Len(run.handlers) >= 2
    /\ Len(run.files) = Len(run.handlers)

====
